---- MODULE Spec2Model ----
(***************************************************************************)
(* Article workflow of MARAGS: the driver main_workflow                    *)
(* (workflows/main_graph.py), the agent nodes built by BaseLlm.create_node *)
(* (agents/base_agent.py), the two routers, and the graph engine that      *)
(* runs the nodes one at a time and merges each returned partial state      *)
(* into the State (workflows/state.py).                                     *)
(*                                                                         *)
(* Strings are sequences of characters where the code inspects their       *)
(* characters (the topic) and opaque values elsewhere.  Python's None is   *)
(* the value None below; a dict is a function whose DOMAIN is its key set, *)
(* so "key in state" is membership in DOMAIN and an attribute probed with  *)
(* hasattr is a record field that may be missing.                          *)
(***************************************************************************)
EXTENDS Integers, Sequences, FiniteSets, TLC

VARIABLES
    topic,                    \* argument topic (a sequence of characters)
    word_count,               \* argument word_count
    retry_attempts,           \* config.retry_attempts
    enable_image_generation,  \* config.enable_image_generation
    return_full_state,        \* argument return_full_state
    timeout_seconds,          \* config.timeout_seconds: {} is None, {n} is n
    prompt_templates,         \* for each agent node, the names of the slots of
                              \* its prompt template, in order of occurrence
    now,                      \* seconds passed since the first invoke began
    pair,                     \* two calls of main_workflow in progress at once:
                              \* their positions and the states they built
    pc,                       \* position of main_workflow
    compiled_graph,           \* the graph returned by build_workflow
    initial_state,            \* the dict built at main_graph.py:215
    state,                    \* the running State of the current invoke
    current,                  \* node the engine runs next
    visits,                   \* nodes run so far by the current invoke
    attempt,                  \* loop variable of "for attempt in range(...)",
                              \* -1 before the first iteration
    final_state,              \* {} is None, {s} is the state s
    last_exception,           \* {} is None, {e} is the exception e
    outcome,                  \* "running", "returned" or "raised"
    result,                   \* the value main_workflow returned
    error,                    \* the exception main_workflow raised
    invocations,              \* number of compiled_graph.invoke calls
    failures,                 \* number of invokes that raised
    capability_used           \* some model, tool or image call was made

vars == <<topic, word_count, retry_attempts, enable_image_generation,
          return_full_state, timeout_seconds, prompt_templates, now, pair,
          pc, compiled_graph, initial_state, state,
          current, visits, attempt, final_state, last_exception, outcome,
          result, error, invocations, failures, capability_used>>

inputs == <<topic, word_count, retry_attempts, enable_image_generation,
            return_full_state, timeout_seconds, prompt_templates>>

-----------------------------------------------------------------------------
(* Bounds of the model *)

\* largest config.retry_attempts explored
MaxRetry == 2

\* largest number of tool calls one model response carries
MaxCalls == 2

\* number of node visits one invoke may make before the engine raises
\* GraphRecursionError (langgraph's recursion_limit, scaled down)
RecursionLimit == 5

\* largest config.timeout_seconds explored, and the last second of the clock
MaxTimeout == 2

-----------------------------------------------------------------------------
(* Values *)

None == "None"

Whitespace == {" ", "\t"}

\* topics handed to main_workflow
Topics == { <<>>, <<" ">>, <<"\t", " ">>, <<" ", "a", "\t">> }

WordCounts == {-1, 0, 1}

\* what a model response may contain
Contents == {"", "text"}

RESEARCH_NODE == "research"
WRITE_NODE == "write"
EDIT_NODE == "edit"
WEB_SEARCH_NODE == "web_search"
IMAGE_GENERATION_NODE == "image_generation"
END == "__end__"

\* results of the search tool: the search results, or the failure text
SearchOutcomes == [ok |-> "results", failed |-> "Web search failed"]

\* no second call of main_workflow is in progress
NoPair == <<>>

\* what the capability behind a tool does when the tool calls it
CapabilityOutcomes == {"answers", "raises"}

\* WebSearchTool._run: the client's answer, or the failure text when the
\* client raises; raised tells whether the exception leaves the tool
WebSearchRun_Propagate(o) ==
    [raised |-> o = "raises", value |-> SearchOutcomes.ok]
WebSearchRun(o) ==
    [raised |-> FALSE,
     value |-> IF o = "raises" THEN SearchOutcomes.failed ELSE SearchOutcomes.ok]

\* the url returned when the image service fails
PlaceholderUrl ==
    "https://via.placeholder.com/1024x1024.png?text=Image+Generation+Failed"

Prompts == {"p1", "p2", "p3", "p4"}

Styles == {"photorealistic", "illustration", "cartoon"}

\* what the image service does with a request: it answers with a url (None
\* when the response carries no url), or it raises an exception with a text
Upstreams ==
    {[raises |-> FALSE, url |-> u] : u \in {"u1", "u2", None}}
    \cup {[raises |-> TRUE, text |-> e] : e \in {"e1", "e2"}}

\* generate_article_image(prompt, style) when the service behaves as up;
\* raised tells whether an exception leaves the function
GenerateArticleImage_Propagate(prompt, style, up) ==
    IF up.raises
    THEN [raised |-> TRUE, value |-> None]
    ELSE [raised |-> FALSE,
          value |-> [url |-> up.url, prompt |-> prompt, style |-> style]]
GenerateArticleImage(prompt, style, up) ==
    [raised |-> FALSE,
     value |-> IF up.raises
               THEN [url |-> PlaceholderUrl, prompt |-> prompt,
                     style |-> style, error |-> up.text]
               ELSE [url |-> up.url, prompt |-> prompt, style |-> style]]

\* the image tool called by the image ToolNode: a Tool made of
\* generate_article_image takes one string, the prompt, and style keeps its
\* default
ImageRun(o) ==
    GenerateArticleImage("p1", "photorealistic",
        IF o = "raises" THEN [raises |-> TRUE, text |-> "e1"]
                        ELSE [raises |-> FALSE, url |-> "u1"])

\* results of generate_article_image: the url, or the placeholder with error
ImageOutcomes ==
    [ok |-> ImageRun("answers").value, failed |-> ImageRun("raises").value]

-----------------------------------------------------------------------------
(* str.strip() *)

RECURSIVE LStrip(_)
LStrip(s) ==
    IF s # <<>> /\ Head(s) \in Whitespace THEN LStrip(Tail(s)) ELSE s

RECURSIVE RStrip(_)
RStrip(s) ==
    IF s # <<>> /\ s[Len(s)] \in Whitespace
    THEN RStrip(SubSeq(s, 1, Len(s) - 1))
    ELSE s

Strip(s) == RStrip(LStrip(s))

\* "not topic or not topic.strip()"
TopicInvalid_NoStrip(t) == t = <<>>
TopicInvalid(t) == t = <<>> \/ Strip(t) = <<>>

\* "word_count <= 0"
WordCountInvalid_Negative(w) == w < 0
WordCountInvalid(w) == w <= 0

-----------------------------------------------------------------------------
(* Messages and the add_messages reducer *)

AIMessage(c, n, i) ==
    [type |-> "ai", content |-> c, tool_calls |-> [k \in 1..n |-> k], id |-> i]

ToolMessage(nm, c, call) ==
    [type |-> "tool", name |-> nm, content |-> c, tool_call_id |-> call, id |-> 0]

RECURSIVE MaxId(_)
MaxId(log) ==
    IF log = <<>> THEN 0
    ELSE LET m == MaxId(Tail(log)) IN IF Head(log).id > m THEN Head(log).id ELSE m

\* one message merged into the log: a message whose id is already in the
\* log replaces that entry in place, any other message is appended; a
\* message without id (0) is given a fresh one first
AddOne(log, m) ==
    LET mi == IF m.id = 0 THEN [m EXCEPT !.id = MaxId(log) + 1] ELSE m
        at == {i \in 1..Len(log) : log[i].id = mi.id}
    IN  IF at = {} THEN Append(log, mi)
        ELSE [i \in 1..Len(log) |-> IF i \in at THEN mi ELSE log[i]]

RECURSIVE AddMessages(_, _)
AddMessages(left, right) ==
    IF right = <<>> THEN left
    ELSE AddMessages(AddOne(left, Head(right)), Tail(right))

\* merge of a node's returned partial state into the State: messages by the
\* reducer, every other key by replacement
Merge_LastValue(st, upd) ==
    [k \in DOMAIN st \cup DOMAIN upd |->
        IF k \notin DOMAIN upd THEN st[k] ELSE upd[k]]
Merge_Concat(st, upd) ==
    [k \in DOMAIN st \cup DOMAIN upd |->
        IF k \notin DOMAIN upd THEN st[k]
        ELSE IF k = "messages" /\ k \in DOMAIN st
             THEN st[k] \o upd[k]
             ELSE upd[k]]
Merge(st, upd) ==
    [k \in DOMAIN st \cup DOMAIN upd |->
        IF k \notin DOMAIN upd THEN st[k]
        ELSE IF k = "messages" /\ k \in DOMAIN st
             THEN AddMessages(st[k], upd[k])
             ELSE upd[k]]

HasToolCalls(m) == "tool_calls" \in DOMAIN m /\ m.tool_calls # <<>>

-----------------------------------------------------------------------------
(* Routers *)

RouteAfterResearch_AttrOnly(st) ==
    IF st.messages = <<>> THEN WRITE_NODE
    ELSE IF "tool_calls" \in DOMAIN st.messages[Len(st.messages)]
         THEN WEB_SEARCH_NODE
         ELSE WRITE_NODE
RouteAfterResearch(st) ==
    IF st.messages = <<>> THEN WRITE_NODE
    ELSE IF HasToolCalls(st.messages[Len(st.messages)])
         THEN WEB_SEARCH_NODE
         ELSE WRITE_NODE

\* a router returns a node, or the name of the exception that leaves it
RouteAfterEdit_AttrOnly(st) ==
    IF st.messages = <<>> THEN END
    ELSE IF "tool_calls" \in DOMAIN st.messages[Len(st.messages)]
         THEN IMAGE_GENERATION_NODE
         ELSE END
RouteAfterEdit_NoExcept(st) ==
    IF st.messages = <<>> THEN "IndexError"
    ELSE IF "tool_calls" \notin DOMAIN st.messages[Len(st.messages)]
         THEN "AttributeError"
         ELSE IF st.messages[Len(st.messages)].tool_calls # <<>>
              THEN IMAGE_GENERATION_NODE
              ELSE END
RouteAfterEdit(st) ==
    IF st.messages = <<>> THEN END
    ELSE IF HasToolCalls(st.messages[Len(st.messages)])
         THEN IMAGE_GENERATION_NODE
         ELSE END

-----------------------------------------------------------------------------
(* Agent nodes: BaseLlm.create_node and BaseLlm.process_query *)

\* content of the most recent ai message of the log, None when there is none
RECURSIVE LastAiContent(_)
LastAiContent(log) ==
    IF log = <<>> THEN None
    ELSE IF log[Len(log)].type = "ai" THEN log[Len(log)].content
         ELSE LastAiContent(SubSeq(log, 1, Len(log) - 1))

\* value the node binds to an expected field
FieldValue_Unset(st, f) == IF f = "word_count" THEN st[f] ELSE None
FieldValue_Empty(st, f) == IF f \in DOMAIN st THEN st[f] ELSE ""
FieldValue(st, f) ==
    IF f \in DOMAIN st THEN st[f] ELSE LastAiContent(st.messages)

\* an expected field that is neither in the state nor in an ai message
MissingFields(st, expected) ==
    {f \in expected : f \notin DOMAIN st /\ LastAiContent(st.messages) = None}

\* agent_state: messages and topic, plus the expected fields
AgentState(st, expected) ==
    [k \in {"messages", "topic"} \cup expected |->
        IF k \in {"messages", "topic"} THEN st[k] ELSE FieldValue(st, k)]

\* what process_query returns for the model's response: the rendered prompt
\* is a HumanMessage of input_messages only, the returned log is
\* messages + [response]
ProcessQuery_KeepsPrompt(ast, response) ==
    [k \in DOMAIN ast |->
        IF k = "messages"
        THEN ast.messages \o
             << [type |-> "human", content |-> "prompt", id |-> response.id + 1],
                response >>
        ELSE ast[k]]
ProcessQuery(ast, response) ==
    [k \in DOMAIN ast |->
        IF k = "messages" THEN Append(ast.messages, response) ELSE ast[k]]

\* what the node returns: the result of process_query with the output field
\* set to the content of its last message
NodeResult_KeepWhenEmpty(st, expected, output_field, response) ==
    LET r == ProcessQuery(AgentState(st, expected), response)
    IN  [k \in DOMAIN r \cup {output_field} |->
            IF k = output_field
            THEN IF r.messages[Len(r.messages)].content = "" THEN st[k]
                 ELSE r.messages[Len(r.messages)].content
            ELSE r[k]]
NodeResult_SkipToolRequests(st, expected, output_field, response) ==
    LET r == ProcessQuery(AgentState(st, expected), response)
    IN  [k \in DOMAIN r \cup {output_field} |->
            IF k = output_field
            THEN IF r.messages[Len(r.messages)].tool_calls # <<>> THEN st[k]
                 ELSE r.messages[Len(r.messages)].content
            ELSE r[k]]
NodeResult(st, expected, output_field, response) ==
    LET r == ProcessQuery(AgentState(st, expected), response)
    IN  [k \in DOMAIN r \cup {output_field} |->
            IF k = output_field
            THEN r.messages[Len(r.messages)].content
            ELSE r[k]]

ExpectedFields(node) ==
    CASE node = RESEARCH_NODE -> {"topic"}
      [] node = WRITE_NODE -> {"research_summary", "word_count"}
      [] node = EDIT_NODE -> {"article_draft"}

\* expected_fields in the order create_node is given them
ExpectedList(node) ==
    CASE node = RESEARCH_NODE -> <<"topic">>
      [] node = WRITE_NODE -> <<"research_summary", "word_count">>
      [] node = EDIT_NODE -> <<"article_draft">>

\* the first expected field, in list order, for which the node raises
FirstMissing(st, node) ==
    LET fields == ExpectedList(node)
        at == {i \in 1..Len(fields) :
                  fields[i] \in MissingFields(st, ExpectedFields(node))}
    IN  fields[CHOOSE i \in at : \A j \in at : i <= j]

\* prompt templates whose slots are all supplied to the agent
DefaultTemplates ==
    [node \in {RESEARCH_NODE, WRITE_NODE, EDIT_NODE} |->
        CASE node = RESEARCH_NODE -> <<"topic">>
          [] node = WRITE_NODE -> <<"topic", "research_summary", "word_count">>
          [] node = EDIT_NODE -> <<"article_draft">>]

\* prompt_template.format(**prompt_kwargs): the slots of the template that
\* are not among the keys of agent_state other than messages
TemplateMissing_Lenient(template, ast) == <<>>
TemplateMissing(template, ast) ==
    SelectSeq(template, LAMBDA f : f \notin (DOMAIN ast \ {"messages"}))

\* the exception the node raises before the model is invoked: {} when there
\* is none
NodeFailure(st, node, template) ==
    IF MissingFields(st, ExpectedFields(node)) # {}
    THEN {[type |-> "ValueError", field |-> FirstMissing(st, node)]}
    ELSE IF TemplateMissing(template, AgentState(st, ExpectedFields(node))) # <<>>
         THEN {[type |-> "KeyError",
                field |-> Head(TemplateMissing(template,
                                AgentState(st, ExpectedFields(node))))]}
         ELSE {}

OutputField_CopyPaste(node) ==
    CASE node = RESEARCH_NODE -> "research_summary"
      [] node = WRITE_NODE -> "article_draft"
      [] node = EDIT_NODE -> "article_draft"
OutputField_WriterToSummary(node) ==
    CASE node = RESEARCH_NODE -> "research_summary"
      [] node = WRITE_NODE -> "research_summary"
      [] node = EDIT_NODE -> "edited_article"
OutputField(node) ==
    CASE node = RESEARCH_NODE -> "research_summary"
      [] node = WRITE_NODE -> "article_draft"
      [] node = EDIT_NODE -> "edited_article"

-----------------------------------------------------------------------------
(* build_workflow *)

\* main_workflow calls build_workflow(config.editor_style): the parameter
\* enable_image_generation keeps its default
EnableImageArgument(cfg_flag) == TRUE

\* the compiled graph: which models have tools bound, and whether the image
\* node and the router after edit exist
BuildWorkflow(enable) ==
    [built |-> TRUE,
     research_tools |-> TRUE,
     writer_tools |-> FALSE,
     editor_tools |-> enable,
     image_node |-> enable,
     edit_router |-> enable]

NoGraph ==
    [built |-> FALSE, research_tools |-> FALSE, writer_tools |-> FALSE,
     editor_tools |-> FALSE, image_node |-> FALSE, edit_router |-> FALSE]

ToolsBound(g, node) ==
    CASE node = RESEARCH_NODE -> g.research_tools
      [] node = WRITE_NODE -> g.writer_tools
      [] node = EDIT_NODE -> g.editor_tools

\* the edges of the graph: the node that follows `node` in state st
NextNode_SearchToWrite(g, node, st) ==
    CASE node = RESEARCH_NODE -> RouteAfterResearch(st)
      [] node = WEB_SEARCH_NODE -> WRITE_NODE
      [] node = WRITE_NODE -> EDIT_NODE
      [] node = EDIT_NODE -> IF g.edit_router THEN RouteAfterEdit(st) ELSE END
      [] node = IMAGE_GENERATION_NODE -> EDIT_NODE
NextNode_ImageToEnd(g, node, st) ==
    CASE node = RESEARCH_NODE -> RouteAfterResearch(st)
      [] node = WEB_SEARCH_NODE -> RESEARCH_NODE
      [] node = WRITE_NODE -> EDIT_NODE
      [] node = EDIT_NODE -> IF g.edit_router THEN RouteAfterEdit(st) ELSE END
      [] node = IMAGE_GENERATION_NODE -> END
NextNode_SkipWrite(g, node, st) ==
    CASE node = RESEARCH_NODE ->
             IF RouteAfterResearch(st) = WRITE_NODE THEN EDIT_NODE
             ELSE RouteAfterResearch(st)
      [] node = WEB_SEARCH_NODE -> RESEARCH_NODE
      [] node = WRITE_NODE -> EDIT_NODE
      [] node = EDIT_NODE -> IF g.edit_router THEN RouteAfterEdit(st) ELSE END
      [] node = IMAGE_GENERATION_NODE -> EDIT_NODE
NextNode_ImageToWrite(g, node, st) ==
    CASE node = RESEARCH_NODE -> RouteAfterResearch(st)
      [] node = WEB_SEARCH_NODE -> RESEARCH_NODE
      [] node = WRITE_NODE -> EDIT_NODE
      [] node = EDIT_NODE -> IF g.edit_router THEN RouteAfterEdit(st) ELSE END
      [] node = IMAGE_GENERATION_NODE -> WRITE_NODE
NextNode(g, node, st) ==
    CASE node = RESEARCH_NODE -> RouteAfterResearch(st)
      [] node = WEB_SEARCH_NODE -> RESEARCH_NODE
      [] node = WRITE_NODE -> EDIT_NODE
      [] node = EDIT_NODE -> IF g.edit_router THEN RouteAfterEdit(st) ELSE END
      [] node = IMAGE_GENERATION_NODE -> EDIT_NODE

\* the pending calls of the last message
PendingCalls(st) ==
    IF st.messages # <<>> /\ HasToolCalls(st.messages[Len(st.messages)])
    THEN st.messages[Len(st.messages)].tool_calls
    ELSE <<>>

\* the tool messages a ToolNode returns for the calls of the last message,
\* one per call in call order; outs[k] is the result of call k
ToolNodeResult_FirstOnly(st, nm, outs) ==
    [messages |-> [k \in 1..(IF PendingCalls(st) = <<>> THEN 0 ELSE 1) |->
                      ToolMessage(nm, outs[k], PendingCalls(st)[k])]]
ToolNodeResult(st, nm, outs) ==
    [messages |-> [k \in 1..Len(PendingCalls(st)) |->
                      ToolMessage(nm, outs[k], PendingCalls(st)[k])]]

-----------------------------------------------------------------------------
(* main_workflow *)

InitialState_Untrimmed(t, w) ==
    [topic |-> t, word_count |-> w, messages |-> <<>>,
     research_summary |-> None, article_draft |-> None, edited_article |-> None]
InitialState(t, w) ==
    [topic |-> Strip(t), word_count |-> w, messages |-> <<>>,
     research_summary |-> None, article_draft |-> None, edited_article |-> None]

NoState == [messages |-> <<>>]

\* the dict handed to invoke after a node has run on the state made from it:
\* the engine copies the input into the State and process_query builds new
\* lists ("messages + [response]"), so the caller's dict is not written
InputAfterVisit_InPlace(init, merged) == merged
InputAfterVisit(init, merged) == init

\* "for attempt in range(config.retry_attempts)" has an iteration for index a
LoopContinues_OneMore(a) == a <= retry_attempts
LoopContinues(a) == a < retry_attempts

\* the number of iterations of "for attempt in range(n)": none for n <= 0
RangeLen(n) == IF n < 0 THEN 0 ELSE n

\* position after the loop body ended for index a
NextIteration_DoWhile(a) ==
    IF a = -1 \/ LoopContinues(a + 1) THEN "loop" ELSE "after_loop"
NextIteration(a) == IF LoopContinues(a + 1) THEN "loop" ELSE "after_loop"

\* position after a successful invoke: break
AfterInvoke_NoBreak(a) == NextIteration(a)
AfterInvoke(a) == "after_loop"

Truthy(v) == v # None /\ v # ""

Get(st, k) == IF k \in DOMAIN st THEN st[k] ELSE None

\* final_state.get('messages', [])
Messages(st) == IF "messages" \in DOMAIN st THEN st.messages ELSE <<>>

AiMessages(log) == SelectSeq(log, LAMBDA m : m.type = "ai")

\* the article returned when return_full_state is false
Article_FirstAi(st) ==
    IF Truthy(Get(st, "edited_article")) THEN st.edited_article
    ELSE IF AiMessages(Messages(st)) # <<>>
         THEN AiMessages(Messages(st))[1].content
         ELSE ""
Article_Draft(st) ==
    IF Truthy(Get(st, "article_draft")) THEN st.article_draft
    ELSE IF AiMessages(Messages(st)) # <<>>
         THEN AiMessages(Messages(st))[Len(AiMessages(Messages(st)))].content
         ELSE ""
Article(st) ==
    IF Truthy(Get(st, "edited_article")) THEN st.edited_article
    ELSE IF AiMessages(Messages(st)) # <<>>
         THEN AiMessages(Messages(st))[Len(AiMessages(Messages(st)))].content
         ELSE IF Messages(st) # <<>>
              THEN Messages(st)[Len(Messages(st))].content
              ELSE ""

ValueError_Wrapped(text) ==
    [type |-> "RuntimeError", text |-> "Workflow execution failed",
     cause |-> [type |-> "ValueError", text |-> text]]
ValueError(text) == [type |-> "ValueError", text |-> text]

AttemptsExhausted(n, last) ==
    [type |-> "RuntimeError", text |-> "Workflow failed after", attempts |-> n,
     last_error |-> last]

NoMessages ==
    [type |-> "RuntimeError", text |-> "Workflow completed but no messages were generated"]

\* the handler at main_graph.py:278: every exception of the try block is
\* wrapped into a RuntimeError
Wrapped_Bare(e) == e
Wrapped(e) ==
    [type |-> "RuntimeError", text |-> "Workflow execution failed", cause |-> e]

NoError == [type |-> "none"]

Init ==
    /\ topic \in Topics
    /\ word_count \in WordCounts
    /\ retry_attempts \in -1..MaxRetry
    /\ enable_image_generation \in BOOLEAN
    /\ return_full_state \in BOOLEAN
    /\ timeout_seconds = {}
    /\ prompt_templates = DefaultTemplates
    /\ now = 0
    /\ pair = NoPair
    /\ pc = "validate"
    /\ compiled_graph = NoGraph
    /\ initial_state = NoState
    /\ state = NoState
    /\ current = "none"
    /\ visits = <<>>
    /\ attempt = -1
    /\ final_state = {}
    /\ last_exception = {}
    /\ outcome = "running"
    /\ result = None
    /\ error = NoError
    /\ invocations = 0
    /\ failures = 0
    /\ capability_used = FALSE

\* main_graph.py:195-200
Validate ==
    /\ pc = "validate"
    /\ IF TopicInvalid(topic)
       THEN /\ outcome' = "raised"
            /\ error' = ValueError("Topic cannot be empty or whitespace only")
            /\ pc' = "done"
       ELSE IF WordCountInvalid(word_count)
       THEN /\ outcome' = "raised"
            /\ error' = ValueError("Word count must be positive")
            /\ pc' = "done"
       ELSE /\ pc' = "build"
            /\ UNCHANGED <<outcome, error>>
    /\ UNCHANGED <<inputs, now, pair, compiled_graph, initial_state, state, current, visits,
                   attempt, final_state, last_exception, result, invocations,
                   failures, capability_used>>

\* main_graph.py:211-227: the graph is built and the initial state made
Build ==
    /\ pc = "build"
    /\ compiled_graph' = BuildWorkflow(EnableImageArgument(enable_image_generation))
    /\ initial_state' = InitialState(topic, word_count)
    /\ pc' = NextIteration(attempt)
    /\ UNCHANGED <<inputs, now, pair, state, current, visits, attempt, final_state,
                   last_exception, outcome, result, error, invocations,
                   failures, capability_used>>

\* build_workflow raises (a prompt cannot be loaded, a model cannot be made):
\* the handler at main_graph.py:278 wraps the exception
BuildFails ==
    /\ pc = "build"
    /\ outcome' = "raised"
    /\ error' = Wrapped([type |-> "BuildError"])
    /\ pc' = "done"
    /\ UNCHANGED <<inputs, now, pair, compiled_graph, initial_state, state, current, visits,
                   attempt, final_state, last_exception, result, invocations,
                   failures, capability_used>>

\* the engine runs another node only while the invoke has made fewer than
\* RecursionLimit visits
WithinRecursionLimit_Unbounded(vs) == TRUE
WithinRecursionLimit(vs) == Len(vs) < RecursionLimit

\* main_graph.py:229-234: an iteration of the loop starts and calls invoke
Invoke ==
    /\ pc = "loop"
    /\ attempt' = attempt + 1
    /\ invocations' = invocations + 1
    /\ state' = initial_state
    /\ current' = RESEARCH_NODE
    /\ visits' = <<>>
    /\ pc' = "invoke"
    /\ UNCHANGED <<inputs, now, pair, compiled_graph, initial_state, final_state,
                   last_exception, outcome, result, error, failures,
                   capability_used>>

\* where main_workflow goes after the except clause of iteration a
AfterFailure_GiveUp(a) == "after_loop"
AfterFailure(a) == NextIteration(a)

\* main_graph.py:237-243: invoke raised e; the running state is lost
Failed(e) ==
    /\ last_exception' = {e}
    /\ failures' = failures + 1
    /\ pc' = AfterFailure(attempt)
    /\ current' = "none"
    /\ state' = NoState
    /\ visits' = <<>>
    /\ UNCHANGED <<inputs, now, pair, compiled_graph, initial_state, attempt, final_state,
                   outcome, result, error, invocations>>

\* one visit of an agent node: a required field is missing or the prompt
\* cannot be formatted and the node raises; or the model answers and the
\* returned partial state is merged; or the model raises
AgentNode(node) ==
    /\ pc = "invoke"
    /\ current = node
    /\ WithinRecursionLimit(visits)
    /\ IF NodeFailure(state, node, prompt_templates[node]) # {}
       THEN /\ Failed(CHOOSE e \in NodeFailure(state, node,
                                                 prompt_templates[node]) : TRUE)
            /\ UNCHANGED capability_used
       ELSE /\ capability_used' = TRUE
            /\ \/ \E c \in Contents,
                    n \in 0..(IF ToolsBound(compiled_graph, node) THEN MaxCalls ELSE 0) :
                    LET response == AIMessage(c, n, MaxId(state.messages) + 1)
                        upd == NodeResult(state, ExpectedFields(node),
                                          OutputField(node), response)
                        merged == Merge(state, upd)
                    IN  /\ state' = merged
                        /\ visits' = Append(visits,
                               [node |-> node, calls |-> n, failed |-> 0])
                        /\ current' = NextNode(compiled_graph, node, merged)
                        /\ initial_state' = InputAfterVisit(initial_state, merged)
                        /\ UNCHANGED <<inputs, now, pair, pc, compiled_graph, attempt,
                                       final_state, last_exception, outcome,
                                       result, error, invocations, failures>>
               \/ Failed([type |-> "ModelError"])

ResearchNode == AgentNode(RESEARCH_NODE)

WriteNode == AgentNode(WRITE_NODE)

EditNode == AgentNode(EDIT_NODE)

\* the tool named nm run while its capability behaves as o
ToolRun(nm, o) ==
    IF nm = "web_search" THEN WebSearchRun(o) ELSE ImageRun(o)

\* one visit of a tool node: every pending call is executed by its tool and its
\* result appended as a tool message; an exception that leaves a tool leaves
\* the node.  The capability behind the tool answers the first j calls of
\* the visit and raises on the later ones, for every j; the visit records
\* how many calls it raised on.
ToolNode(node, nm) ==
    /\ pc = "invoke"
    /\ current = node
    /\ WithinRecursionLimit(visits)
    /\ capability_used' = TRUE
    /\ \E j \in 0..Len(PendingCalls(state)) :
          LET rets == [k \in 1..Len(PendingCalls(state)) |->
                          ToolRun(nm, IF k <= j THEN "answers" ELSE "raises")]
              outs == [k \in 1..Len(PendingCalls(state)) |-> rets[k].value]
              merged == Merge(state, ToolNodeResult(state, nm, outs))
          IN  IF \E k \in 1..Len(PendingCalls(state)) : rets[k].raised
              THEN Failed([type |-> "ToolError"])
              ELSE /\ state' = merged
                   /\ visits' = Append(visits,
                          [node |-> node, calls |-> 0,
                           failed |-> Len(PendingCalls(state)) - j])
                   /\ current' = NextNode(compiled_graph, node, merged)
                   /\ UNCHANGED <<inputs, now, pair, pc, compiled_graph, initial_state,
                                  attempt, final_state, last_exception, outcome,
                                  result, error, invocations, failures>>

WebSearchNode == ToolNode(WEB_SEARCH_NODE, "web_search")

ImageGenerationNode ==
    /\ compiled_graph.image_node
    /\ ToolNode(IMAGE_GENERATION_NODE, "generate_article_image")

\* the engine has made RecursionLimit visits and END is not reached
RecursionLimitReached ==
    /\ pc = "invoke"
    /\ current \notin {END, "none"}
    /\ ~WithinRecursionLimit(visits)
    /\ Failed([type |-> "GraphRecursionError"])
    /\ UNCHANGED capability_used

\* main_graph.py:234-235: invoke returns the final state, break
InvokeReturns ==
    /\ pc = "invoke"
    /\ current = END
    /\ final_state' = {state}
    /\ pc' = AfterInvoke(attempt)
    /\ current' = "none"
    /\ UNCHANGED <<inputs, now, pair, compiled_graph, initial_state, state, visits, attempt,
                   last_exception, outcome, result, error, invocations,
                   failures, capability_used>>

\* main_graph.py:245-281: after the loop
Finish ==
    /\ pc = "after_loop"
    /\ pc' = "done"
    /\ IF final_state = {}
       THEN /\ outcome' = "raised"
            /\ error' = Wrapped(AttemptsExhausted(retry_attempts, last_exception))
            /\ UNCHANGED result
       ELSE LET fs == CHOOSE s \in final_state : TRUE
            IN  IF ~Truthy(Get(fs, "edited_article")) /\ Messages(fs) = <<>>
                THEN /\ outcome' = "raised"
                     /\ error' = Wrapped(NoMessages)
                     /\ UNCHANGED result
                ELSE /\ outcome' = "returned"
                     /\ result' = IF return_full_state THEN fs ELSE Article(fs)
                     /\ UNCHANGED error
    /\ UNCHANGED <<inputs, now, pair, compiled_graph, initial_state, state, current, visits,
                   attempt, final_state, last_exception, invocations, failures,
                   capability_used>>

Next ==
    \/ Validate
    \/ Build
    \/ BuildFails
    \/ Invoke
    \/ ResearchNode
    \/ WriteNode
    \/ EditNode
    \/ WebSearchNode
    \/ ImageGenerationNode
    \/ RecursionLimitReached
    \/ InvokeReturns
    \/ Finish

Spec == Init /\ [][Next]_vars

-----------------------------------------------------------------------------
(* main_workflow called with config.timeout_seconds set, under a clock *)

\* WorkflowConfig(timeout_seconds=n, retry_attempts=1)
TimeoutInit ==
    /\ topic = <<" ", "a", "\t">>
    /\ word_count = 1
    /\ retry_attempts = 1
    /\ enable_image_generation \in BOOLEAN
    /\ return_full_state \in BOOLEAN
    /\ timeout_seconds \in {{n} : n \in 1..MaxTimeout}
    /\ prompt_templates = DefaultTemplates
    /\ now = 0
    /\ pair = NoPair
    /\ pc = "validate"
    /\ compiled_graph = NoGraph
    /\ initial_state = NoState
    /\ state = NoState
    /\ current = "none"
    /\ visits = <<>>
    /\ attempt = -1
    /\ final_state = {}
    /\ last_exception = {}
    /\ outcome = "running"
    /\ result = None
    /\ error = NoError
    /\ invocations = 0
    /\ failures = 0
    /\ capability_used = FALSE

\* a second passes while invoke runs; nothing in main_workflow reads the
\* clock or config.timeout_seconds
Tick ==
    /\ pc = "invoke"
    /\ now < MaxTimeout
    /\ now' = now + 1
    /\ UNCHANGED <<inputs, pair, pc, compiled_graph, initial_state, state, current,
                   visits, attempt, final_state, last_exception, outcome,
                   result, error, invocations, failures, capability_used>>

TimeoutNext ==
    \/ Next
    \/ Tick

SpecTimeout == TimeoutInit /\ [][TimeoutNext]_vars

-----------------------------------------------------------------------------
(* main_workflow run with prompt templates that may hold an unsupplied slot *)

\* each template is the default one, or the default one followed by a slot
\* named audience, which no agent is supplied with
Templates ==
    {[node \in DOMAIN DefaultTemplates |->
         IF node \in bad THEN Append(DefaultTemplates[node], "audience")
         ELSE DefaultTemplates[node]] :
       bad \in SUBSET DOMAIN DefaultTemplates}

TemplateInit ==
    /\ topic = <<" ", "a", "\t">>
    /\ word_count = 1
    /\ retry_attempts = MaxRetry
    /\ enable_image_generation = TRUE
    /\ return_full_state = FALSE
    /\ timeout_seconds = {}
    /\ prompt_templates \in Templates
    /\ now = 0
    /\ pair = NoPair
    /\ pc = "validate"
    /\ compiled_graph = NoGraph
    /\ initial_state = NoState
    /\ state = NoState
    /\ current = "none"
    /\ visits = <<>>
    /\ attempt = -1
    /\ final_state = {}
    /\ last_exception = {}
    /\ outcome = "running"
    /\ result = None
    /\ error = NoError
    /\ invocations = 0
    /\ failures = 0
    /\ capability_used = FALSE

SpecTemplate == TemplateInit /\ [][Next]_vars

-----------------------------------------------------------------------------
(* Two calls of main_workflow with different topics, interleaved at node     *)
(* boundaries.  Each call has one attempt and its models and tools answer.  *)

Runs == {1, 2}

\* the topic of each call
PairTopics == << <<"a">>, <<" ", "b">> >>

\* the responses the models give to one call, one per agent visit: the
\* content, and the number of tool calls asked for when tools are bound
Scripts ==
    {[i \in 1..RecursionLimit |->
         [content |-> IF i \in empty THEN "" ELSE "text",
          calls |-> IF i \in asking THEN 1 ELSE 0]] :
       empty \in {{}, {2}}, asking \in SUBSET {1, 3}}

\* the State a call works on: each call makes its own initial_state and
\* invokes its own compiled graph on it
StateSlot_Shared(r) == 1
StateSlot(r) == r

\* the state after node has run on st and its result is merged, when the
\* model's answer is resp and every tool answers
VisitResult(g, st, node, resp) ==
    IF node \in {RESEARCH_NODE, WRITE_NODE, EDIT_NODE}
    THEN Merge(st, NodeResult(st, ExpectedFields(node), OutputField(node),
                   AIMessage(resp.content,
                             IF ToolsBound(g, node) THEN resp.calls ELSE 0,
                             MaxId(st.messages) + 1)))
    ELSE LET nm == IF node = WEB_SEARCH_NODE
                   THEN "web_search" ELSE "generate_article_image"
         IN  Merge(st, ToolNodeResult(st, nm,
                   [k \in 1..Len(PendingCalls(st)) |->
                       ToolRun(nm, "answers").value]))

\* the final state of a call that runs alone from node on st, with k model
\* answers used and n visits made; the state reached when the visits run out
RECURSIVE RunAlone(_, _, _, _, _, _)
RunAlone(g, st, node, script, k, n) ==
    IF node = END \/ n >= RecursionLimit THEN st
    ELSE LET agent == node \in {RESEARCH_NODE, WRITE_NODE, EDIT_NODE}
             merged == VisitResult(g, st, node,
                           IF agent THEN script[k + 1] ELSE script[1])
         IN  RunAlone(g, merged, NextNode(g, node, merged), script,
                      IF agent THEN k + 1 ELSE k, n + 1)

PairInit ==
    /\ topic = <<"a">>
    /\ word_count = 1
    /\ retry_attempts = 1
    /\ enable_image_generation = TRUE
    /\ return_full_state = TRUE
    /\ timeout_seconds = {}
    /\ prompt_templates = DefaultTemplates
    /\ now = 0
    /\ \E scripts \in [Runs -> Scripts] :
          pair = [run |-> [r \in Runs |->
                              [pc |-> "start", script |-> scripts[r], k |-> 0,
                               n |-> 0, current |-> "none",
                               graph |-> NoGraph]],
                  store |-> [r \in Runs |-> NoState]]
    /\ pc = "pair"
    /\ compiled_graph = NoGraph
    /\ initial_state = NoState
    /\ state = NoState
    /\ current = "none"
    /\ visits = <<>>
    /\ attempt = -1
    /\ final_state = {}
    /\ last_exception = {}
    /\ outcome = "running"
    /\ result = None
    /\ error = NoError
    /\ invocations = 0
    /\ failures = 0
    /\ capability_used = FALSE

PairUnchanged ==
    UNCHANGED <<inputs, now, pc, compiled_graph, initial_state, state, current,
                visits, attempt, final_state, last_exception, outcome, result,
                error, invocations, failures, capability_used>>

\* main_graph.py:211-234: call r builds its graph and initial state and
\* invokes the graph
BeginRun(r) ==
    /\ pc = "pair"
    /\ pair.run[r].pc = "start"
    /\ pair' = [pair EXCEPT
                   !.run[r].pc = "running",
                   !.run[r].current = RESEARCH_NODE,
                   !.run[r].graph = BuildWorkflow(EnableImageArgument(TRUE)),
                   !.store[StateSlot(r)] = InitialState(PairTopics[r], 1)]
    /\ PairUnchanged

\* the graph of call r runs its next node and merges the result
StepRun(r) ==
    /\ pc = "pair"
    /\ pair.run[r].pc = "running"
    /\ pair.run[r].current # END
    /\ pair.run[r].n < RecursionLimit
    /\ LET run == pair.run[r]
           agent == run.current \in {RESEARCH_NODE, WRITE_NODE, EDIT_NODE}
           merged == VisitResult(run.graph, pair.store[StateSlot(r)],
                         run.current,
                         IF agent THEN run.script[run.k + 1] ELSE run.script[1])
       IN  pair' = [pair EXCEPT
                      !.run[r].current = NextNode(run.graph, run.current, merged),
                      !.run[r].k = IF agent THEN run.k + 1 ELSE run.k,
                      !.run[r].n = run.n + 1,
                      !.store[StateSlot(r)] = merged]
    /\ PairUnchanged

\* main_graph.py:234-276: invoke of call r returns its final state
EndRun(r) ==
    /\ pc = "pair"
    /\ pair.run[r].pc = "running"
    /\ pair.run[r].current = END
    /\ pair' = [pair EXCEPT !.run[r].pc = "returned"]
    /\ PairUnchanged

PairNext ==
    \E r \in Runs :
        \/ BeginRun(r)
        \/ StepRun(r)
        \/ EndRun(r)

SpecPair == PairInit /\ [][PairNext]_vars

-----------------------------------------------------------------------------
(* The routers applied to arbitrary message logs *)

\* longest log handed to a router
MaxLogLen == 2

HumanMessage(c, i) == [type |-> "human", content |-> c, id |-> i]

\* the messages a log may hold at position i
MessagesAt(i) ==
    {AIMessage(c, n, i) : c \in Contents, n \in 0..MaxCalls}
    \cup {HumanMessage(c, i) : c \in Contents}
    \cup {[ToolMessage("web_search", c, 1) EXCEPT !.id = i] :
              c \in {SearchOutcomes.ok, SearchOutcomes.failed}}

RouteLogs ==
    UNION {{log \in [1..n -> UNION {MessagesAt(i) : i \in 1..n}] :
               \A i \in 1..n : log[i] \in MessagesAt(i)} : n \in 0..MaxLogLen}

RouteInit ==
    /\ topic = <<"a">>
    /\ word_count = 1
    /\ retry_attempts = 1
    /\ enable_image_generation = TRUE
    /\ return_full_state = FALSE
    /\ timeout_seconds = {}
    /\ prompt_templates = DefaultTemplates
    /\ now = 0
    /\ pair = NoPair
    /\ pc = "route"
    /\ compiled_graph = BuildWorkflow(TRUE)
    /\ initial_state = InitialState(topic, word_count)
    /\ \E log \in RouteLogs : state = [initial_state EXCEPT !.messages = log]
    /\ current = "none"
    /\ visits = <<>>
    /\ attempt = -1
    /\ final_state = {}
    /\ last_exception = {}
    /\ outcome = "running"
    /\ result = None
    /\ error = NoError
    /\ invocations = 0
    /\ failures = 0
    /\ capability_used = FALSE

\* the engine asks the router of the research node
ApplyRouteAfterResearch ==
    /\ pc = "route"
    /\ current' = RouteAfterResearch(state)
    /\ pc' = "routed_research"
    /\ UNCHANGED <<inputs, now, pair, compiled_graph, initial_state, state, visits, attempt,
                   final_state, last_exception, outcome, result, error,
                   invocations, failures, capability_used>>

\* the engine asks the router of the edit node
ApplyRouteAfterEdit ==
    /\ pc = "route"
    /\ current' = RouteAfterEdit(state)
    /\ pc' = "routed_edit"
    /\ UNCHANGED <<inputs, now, pair, compiled_graph, initial_state, state, visits, attempt,
                   final_state, last_exception, outcome, result, error,
                   invocations, failures, capability_used>>

RouteNext ==
    \/ ApplyRouteAfterResearch
    \/ ApplyRouteAfterEdit

SpecRoute == RouteInit /\ [][RouteNext]_vars

-----------------------------------------------------------------------------
(* An agent node applied to arbitrary states *)

\* the states handed to the node `node`: any log, and each expected field
\* other than topic either missing or present; the slots that are present
\* all hold None or all hold a text
NodeStates(node) ==
    {[k \in {"messages", "topic", "research_summary", "article_draft",
             "edited_article", "word_count"} \ absent |->
         CASE k = "messages" -> log
           [] k = "topic" -> <<"a">>
           [] k = "word_count" -> 1
           [] OTHER -> v] :
       log \in RouteLogs,
       absent \in SUBSET (ExpectedFields(node) \ {"topic"}),
       v \in {None, "text"}}

NodeInit ==
    /\ topic = <<"a">>
    /\ word_count = 1
    /\ retry_attempts = 1
    /\ enable_image_generation = TRUE
    /\ return_full_state = FALSE
    /\ timeout_seconds = {}
    /\ prompt_templates = DefaultTemplates
    /\ now = 0
    /\ pair = NoPair
    /\ pc = "node"
    /\ compiled_graph = BuildWorkflow(TRUE)
    /\ initial_state = InitialState(topic, word_count)
    /\ current \in {RESEARCH_NODE, WRITE_NODE, EDIT_NODE}
    /\ state \in NodeStates(current)
    /\ visits = <<>>
    /\ attempt = -1
    /\ final_state = {}
    /\ last_exception = {}
    /\ outcome = "running"
    /\ result = None
    /\ error = NoError
    /\ invocations = 0
    /\ failures = 0
    /\ capability_used = FALSE

\* the node function is called on state: it raises before the model is
\* invoked, or the model answers and the node returns its partial state, or
\* the model raises
ApplyNode ==
    /\ pc = "node"
    /\ pc' = "node_done"
    /\ IF NodeFailure(state, current, prompt_templates[current]) # {}
       THEN /\ outcome' = "raised"
            /\ error' = CHOOSE e \in NodeFailure(state, current,
                                     prompt_templates[current]) : TRUE
            /\ UNCHANGED <<result, capability_used>>
       ELSE /\ capability_used' = TRUE
            /\ \/ \E c \in Contents,
                    n \in 0..(IF ToolsBound(compiled_graph, current)
                              THEN MaxCalls ELSE 0) :
                    /\ result' = NodeResult(state, ExpectedFields(current),
                                     OutputField(current),
                                     AIMessage(c, n, MaxId(state.messages) + 1))
                    /\ outcome' = "returned"
                    /\ UNCHANGED error
               \/ /\ outcome' = "raised"
                  /\ error' = [type |-> "ModelError"]
                  /\ UNCHANGED result
    /\ UNCHANGED <<inputs, now, pair, compiled_graph, initial_state, state, current,
                   visits, attempt, final_state, last_exception, invocations,
                   failures>>

NodeNext == ApplyNode

SpecNode == NodeInit /\ [][NodeNext]_vars

-----------------------------------------------------------------------------
(* generate_article_image applied to arbitrary calls *)

\* state holds the arguments of the call and the behaviour of the service
ImageInit ==
    /\ topic = <<"a">>
    /\ word_count = 1
    /\ retry_attempts = 1
    /\ enable_image_generation = TRUE
    /\ return_full_state = FALSE
    /\ timeout_seconds = {}
    /\ prompt_templates = DefaultTemplates
    /\ now = 0
    /\ pair = NoPair
    /\ pc = "image"
    /\ compiled_graph = BuildWorkflow(TRUE)
    /\ initial_state = InitialState(topic, word_count)
    /\ \E p \in Prompts, s \in Styles, up \in Upstreams :
          state = [messages |-> <<>>, prompt |-> p, style |-> s, upstream |-> up]
    /\ current = "none"
    /\ visits = <<>>
    /\ attempt = -1
    /\ final_state = {}
    /\ last_exception = {}
    /\ outcome = "running"
    /\ result = None
    /\ error = NoError
    /\ invocations = 0
    /\ failures = 0
    /\ capability_used = FALSE

\* the call returns its dict, or an exception leaves it
ApplyGenerateArticleImage ==
    /\ pc = "image"
    /\ pc' = "image_done"
    /\ LET r == GenerateArticleImage(state.prompt, state.style, state.upstream)
       IN  IF r.raised
           THEN /\ outcome' = "raised"
                /\ error' = [type |-> "Exception", text |-> state.upstream.text]
                /\ UNCHANGED result
           ELSE /\ outcome' = "returned"
                /\ result' = r.value
                /\ UNCHANGED error
    /\ capability_used' = TRUE
    /\ UNCHANGED <<inputs, now, pair, compiled_graph, initial_state, state, current,
                   visits, attempt, final_state, last_exception, invocations,
                   failures>>

ImageNext == ApplyGenerateArticleImage

SpecImage == ImageInit /\ [][ImageNext]_vars

-----------------------------------------------------------------------------
(* Properties *)

LastMessage(st) == st.messages[Len(st.messages)]

\* the last message is ai-tagged and carries at least one pending tool call
AiWithPendingCall(m) == m.type = "ai" /\ Len(m.tool_calls) >= 1

NodesOf(vs) == [i \in 1..Len(vs) |-> vs[i].node]

RECURSIVE SumCalls(_)
SumCalls(vs) == IF vs = <<>> THEN 0 ELSE Head(vs).calls + SumCalls(Tail(vs))

ToolMessages(log) == SelectSeq(log, LAMBDA m : m.type = "tool")

\* the current invoke has reached END
AtEnd == pc = "invoke" /\ current = END

\* C1: on a non-empty log route_after_research returns web_search exactly
\* when the last message is ai-tagged with at least one pending tool call and
\* write otherwise; route_after_edit returns image_generation under the same
\* condition and END otherwise.
RoutingCorrect ==
    /\ (pc = "routed_research" /\ state.messages # <<>>) =>
          current = IF AiWithPendingCall(LastMessage(state))
                    THEN WEB_SEARCH_NODE ELSE WRITE_NODE
    /\ (pc = "routed_edit" /\ state.messages # <<>>) =>
          current = IF AiWithPendingCall(LastMessage(state))
                    THEN IMAGE_GENERATION_NODE ELSE END

RoutingCorrectWitness ==
    /\ pc = "routed_edit"
    /\ Len(state.messages) = 2
    /\ state.messages[1].type = "tool"
    /\ AiWithPendingCall(LastMessage(state))
    /\ current = IMAGE_GENERATION_NODE

\* the visits of an attempt whose researcher asked for tools n times
ResearchLoop(n) ==
    [i \in 1..(2 * n + 3) |->
        IF i <= 2 * n
        THEN (IF i % 2 = 1 THEN RESEARCH_NODE ELSE WEB_SEARCH_NODE)
        ELSE <<RESEARCH_NODE, WRITE_NODE, EDIT_NODE>>[i - 2 * n]]

ToolRequests(vs, node) ==
    Cardinality({i \in 1..Len(vs) : vs[i].node = node /\ vs[i].calls > 0})

\* C2: an attempt that reaches END, whose researcher requested tools on its
\* first n invocations and none on the next and whose editor requested none,
\* visited (research, web_search) x n, research, write, edit, and its log
\* holds exactly one tool message per requested tool call.
SearchLoopOrder ==
    (AtEnd /\ ToolRequests(visits, EDIT_NODE) = 0) =>
        /\ NodesOf(visits) = ResearchLoop(ToolRequests(visits, RESEARCH_NODE))
        /\ Len(ToolMessages(state.messages)) = SumCalls(visits)

SearchLoopOrderWitness ==
    /\ AtEnd
    /\ NodesOf(visits) =
          <<RESEARCH_NODE, WEB_SEARCH_NODE, RESEARCH_NODE, WRITE_NODE, EDIT_NODE>>
    /\ visits[1].calls = 1
    /\ Len(ToolMessages(state.messages)) = 1

\* the visits after the write node
RECURSIVE AfterWrite(_)
AfterWrite(vs) ==
    IF vs = <<>> THEN <<>>
    ELSE IF Head(vs).node = WRITE_NODE THEN Tail(vs) ELSE AfterWrite(Tail(vs))

\* edit, then (image_generation, edit) m times
EditLoop(m) ==
    [i \in 1..(2 * m + 1) |-> IF i % 2 = 1 THEN EDIT_NODE ELSE IMAGE_GENERATION_NODE]

\* C3: in a graph built with image generation, the image_generation node
\* always hands control back to edit, END is reached only from an edit visit
\* whose response carries no pending call, and the visits after write are
\* edit, (image_generation, edit) once per tool-requesting editor response.
ImageLoopOrder ==
    compiled_graph.image_node =>
        /\ \A i \in 1..Len(visits) :
              visits[i].node = IMAGE_GENERATION_NODE =>
                  IF i < Len(visits) THEN visits[i + 1].node = EDIT_NODE
                  ELSE pc = "invoke" /\ current = EDIT_NODE
        /\ AtEnd =>
              /\ visits[Len(visits)].node = EDIT_NODE
              /\ visits[Len(visits)].calls = 0
              /\ NodesOf(AfterWrite(visits)) = EditLoop(ToolRequests(visits, EDIT_NODE))

ImageLoopOrderWitness ==
    /\ AtEnd
    /\ NodesOf(visits) =
          <<RESEARCH_NODE, WRITE_NODE, EDIT_NODE, IMAGE_GENERATION_NODE, EDIT_NODE>>
    /\ visits[3].calls = 1
    /\ visits[5].calls = 0

\* the successful results of the image_generation node in the log
ImageResults(log) ==
    SelectSeq(log, LAMBDA m : m.type = "tool" /\ m.name = "generate_article_image"
                                /\ m.content = ImageOutcomes.ok)

\* C4: at END generated_images holds the successful results of the
\* image_generation node, in order.
ImagesAccumulated ==
    (AtEnd /\ ImageResults(state.messages) # <<>>) =>
        /\ "generated_images" \in DOMAIN state
        /\ Len(state.generated_images) = Len(ImageResults(state.messages))

\* C5: with config.enable_image_generation = False the editor has no image
\* tools, no router follows edit and the image_generation node is not visited.
ImageBranchOnlyWhenEnabled ==
    ~enable_image_generation =>
        /\ ~compiled_graph.editor_tools
        /\ ~compiled_graph.edit_router
        /\ ~compiled_graph.image_node
        /\ \A i \in 1..Len(visits) : visits[i].node # IMAGE_GENERATION_NODE

\* C6: the state an attempt after a failed one starts from is the fresh
\* initial state: the trimmed topic, word_count, an empty log, no slot set.
RetryIsolation ==
    (pc = "invoke" /\ visits = <<>> /\ failures >= 1) =>
        /\ DOMAIN state = {"topic", "word_count", "messages", "research_summary",
                           "article_draft", "edited_article"}
        /\ state.topic = Strip(topic)
        /\ state.word_count = word_count
        /\ state.messages = <<>>
        /\ state.research_summary = None
        /\ state.article_draft = None
        /\ state.edited_article = None

RetryIsolationWitness ==
    /\ pc = "invoke"
    /\ visits = <<>>
    /\ failures = 1
    /\ last_exception = {[type |-> "GraphRecursionError"]}
    /\ state.topic = <<"a">>
    /\ topic # <<"a">>

AgentVisits(vs) ==
    Cardinality({i \in 1..Len(vs) : vs[i].node \in {RESEARCH_NODE, WRITE_NODE, EDIT_NODE}})

\* C7: when attempts 1..k-1 fail and attempt k succeeds the graph was
\* invoked k times, no error is raised, and what is returned is the final
\* state of attempt k, whose log holds the messages of that attempt only.
SuccessAfterFailures ==
    (pc = "done" /\ final_state # {}) =>
        /\ outcome = "returned"
        /\ invocations = failures + 1
        /\ invocations <= retry_attempts
        /\ error = NoError
        /\ final_state = {state}
        /\ Len(state.messages) = AgentVisits(visits) + SumCalls(visits)
        /\ IF return_full_state
           THEN result = state
           ELSE \E i \in 1..Len(state.messages) :
                   state.messages[i].type = "ai" /\ result = state.messages[i].content

SuccessAfterFailuresWitness ==
    /\ outcome = "returned"
    /\ failures = 1
    /\ invocations = 2
    /\ return_full_state
    /\ Len(result.messages) = 3

\* C8: when every attempt fails the graph was invoked retry_attempts times
\* and a RuntimeError is raised that carries the attempt count and the last
\* attempt's exception; nothing is returned.
AttemptsExhaustedError ==
    (pc = "done" /\ compiled_graph.built /\ final_state = {}) =>
        /\ invocations = RangeLen(retry_attempts)
        /\ failures = RangeLen(retry_attempts)
        /\ outcome = "raised"
        /\ result = None
        /\ error.type = "RuntimeError"
        /\ error.cause.type = "RuntimeError"
        /\ error.cause.attempts = retry_attempts
        /\ error.cause.last_error = last_exception

AttemptsExhaustedErrorWitness ==
    /\ pc = "done"
    /\ retry_attempts = 2
    /\ failures = 2
    /\ outcome = "raised"
    /\ error.cause.attempts = 2
    /\ error.cause.last_error = {[type |-> "ModelError"]}

\* the topic is empty or holds whitespace only
IsBlank(t) == \A i \in 1..Len(t) : t[i] \in Whitespace

NoWorkDone ==
    /\ ~compiled_graph.built
    /\ invocations = 0
    /\ attempt = -1
    /\ ~capability_used
    /\ outcome # "returned"

\* C9: a blank topic raises a ValueError at once: no graph is built, no
\* capability is invoked and no attempt is made.
BlankTopicRejected ==
    IsBlank(topic) =>
        /\ NoWorkDone
        /\ pc # "validate" =>
              /\ pc = "done"
              /\ outcome = "raised"
              /\ error = ValueError("Topic cannot be empty or whitespace only")

BlankTopicRejectedWitness ==
    /\ topic = <<"\t", " ">>
    /\ pc = "done"
    /\ outcome = "raised"
    /\ error.type = "ValueError"

\* C10: a valid topic with word_count <= 0 raises a ValueError before the
\* graph is built, with no capability invoked and no attempt made.
NonPositiveWordCountRejected ==
    (~IsBlank(topic) /\ word_count <= 0) =>
        /\ NoWorkDone
        /\ pc # "validate" =>
              /\ pc = "done"
              /\ outcome = "raised"
              /\ error = ValueError("Word count must be positive")

NonPositiveWordCountRejectedWitness ==
    /\ ~IsBlank(topic)
    /\ word_count = 0
    /\ pc = "done"
    /\ outcome = "raised"
    /\ error.type = "ValueError"

\* the tool messages of the search tool that carry the failure text
SearchFailures(log) ==
    SelectSeq(log, LAMBDA m : /\ m.type = "tool"
                              /\ m.name = "web_search"
                              /\ m.content = SearchOutcomes.failed)

\* C11: a visit of web_search whose search capability raises does not end
\* the attempt and uses no retry: every pending call gets a tool message,
\* the calls the capability raised on get the failure text, and the run goes
\* on to research.
SearchFailureDegrades ==
    [][(pc = "invoke" /\ current = WEB_SEARCH_NODE
                      /\ Len(visits) < RecursionLimit) =>
          LET n == Len(state.messages)
              calls == PendingCalls(state)
              v == visits'[Len(visits')]
          IN  /\ pc' = "invoke"
              /\ current' = RESEARCH_NODE
              /\ failures' = failures
              /\ attempt' = attempt
              /\ invocations' = invocations
              /\ last_exception' = last_exception
              /\ Len(visits') = Len(visits) + 1
              /\ v.node = WEB_SEARCH_NODE
              /\ Len(state'.messages) = n + Len(calls)
              /\ SubSeq(state'.messages, 1, n) = state.messages
              /\ \A i \in 1..Len(calls) :
                    /\ state'.messages[n + i].type = "tool"
                    /\ state'.messages[n + i].tool_call_id = calls[i]
              /\ Len(SearchFailures(state'.messages))
                    = Len(SearchFailures(state.messages)) + v.failed]_vars

\* an attempt with a failed search has reached END without a failed attempt
SearchFailureDegradesWitness ==
    /\ AtEnd
    /\ failures = 0
    /\ \E i \in 1..Len(visits) :
          visits[i].node = WEB_SEARCH_NODE /\ visits[i].failed >= 1
    /\ Len(SearchFailures(state.messages)) >= 1

\* C12: an invoke never makes more than RecursionLimit visits; when the limit
\* is reached before END (an agent asked for a tool on every visit) the
\* invoke ends with GraphRecursionError, which is a failure of that attempt
\* and yields no final state.
BoundedCycling ==
    [][/\ pc' = "invoke" => Len(visits') <= RecursionLimit
       /\ (pc = "invoke" /\ Len(visits) = RecursionLimit /\ current # END) =>
             /\ failures' = failures + 1
             /\ last_exception' = {[type |-> "GraphRecursionError"]}
             /\ final_state' = {}
             /\ pc' \in {"loop", "after_loop"}]_vars

\* the only attempt allowed ended at the limit and the caller got the error
BoundedCyclingWitness ==
    /\ pc = "done"
    /\ retry_attempts = 1
    /\ failures = 1
    /\ last_exception = {[type |-> "GraphRecursionError"]}
    /\ outcome = "raised"
    /\ result = None
    /\ error = Wrapped(AttemptsExhausted(1, last_exception))

\* config.timeout_seconds is set and that many seconds have passed
TimeoutExpired == \E n \in timeout_seconds : now >= n

\* C13: when config.timeout_seconds is set and expires while the graph runs,
\* main_workflow ends with a timeout error and returns no value.
TimeoutAborts ==
    (pc = "done" /\ TimeoutExpired) =>
        /\ outcome = "raised"
        /\ result = None
        /\ error.type = "RuntimeError"
        /\ error.cause.type = "TimeoutError"

\* C14: a node's returned state merged into the State never shortens the
\* log: the messages the log held before the merge are its first messages
\* after it, in the same order.
MonotonicLog ==
    [][(pc = "invoke" /\ pc' = "invoke") =>
          /\ Len(state'.messages) >= Len(state.messages)
          /\ SubSeq(state'.messages, 1, Len(state.messages))
                = state.messages]_vars

\* agent and tool nodes have both added to the log of one attempt
MonotonicLogWitness ==
    /\ pc = "invoke"
    /\ Len(state.messages) >= 4
    /\ Len(ToolMessages(state.messages)) >= 1
    /\ \E i \in 1..Len(visits) : visits[i].node = WRITE_NODE
    /\ state.messages[1].type = "ai"

\* the fields that hold the artifacts of the three agents
Slots == {"research_summary", "article_draft", "edited_article"}

\* the node whose output field is f
WriterOf(f) == CHOOSE node \in {RESEARCH_NODE, WRITE_NODE, EDIT_NODE} :
                  OutputField(node) = f

\* C15: within an attempt a slot that has been set is never reset to absent
\* by a later node visit, and a slot changes only at a visit of the node it
\* belongs to.
SlotsNeverReset ==
    [][(pc = "invoke" /\ pc' = "invoke") =>
          \A f \in Slots :
              /\ (f \in DOMAIN state /\ state[f] # None) =>
                    (f \in DOMAIN state' /\ state'[f] # None)
              /\ state'[f] # state[f] => current = WriterOf(f)]_vars

\* edited_article is still set after an image visit and a second edit
SlotsNeverResetWitness ==
    /\ pc = "invoke"
    /\ Len(visits) >= 5
    /\ visits[Len(visits)].node = EDIT_NODE
    /\ visits[Len(visits) - 1].node = IMAGE_GENERATION_NODE
    /\ state.edited_article # None
    /\ state.article_draft # None
    /\ state.research_summary # None

\* the final state of the successful attempt
FinalState == CHOOSE s \in final_state : TRUE

\* C16: on success main_workflow returns the whole final state when
\* return_full_state is true; otherwise the edited_article field, or, when
\* that field was never set, the content of the last ai message, or, when
\* there is none, the content of the last message.
ResultExtraction ==
    (pc = "done" /\ outcome = "returned") =>
        /\ final_state # {}
        /\ IF return_full_state
           THEN result = FinalState
           ELSE result =
                  IF Get(FinalState, "edited_article") # None
                  THEN FinalState.edited_article
                  ELSE IF AiMessages(FinalState.messages) # <<>>
                       THEN LastAiContent(FinalState.messages)
                       ELSE LastMessage(FinalState).content

\* the editor's last response was empty while earlier responses were not:
\* the code takes its fallback and still returns the edited_article
ResultExtractionWitness ==
    /\ pc = "done"
    /\ outcome = "returned"
    /\ ~return_full_state
    /\ FinalState.edited_article = ""
    /\ FinalState.research_summary = "text"
    /\ FinalState.article_draft = "text"
    /\ result = ""

\* C17: main_workflow ends with a value or with one error, never both; a
\* value returned with return_full_state false is the content of the
\* response the editor gave on the last visit of the successful attempt, a
\* response without tool calls and the last message of that attempt's log.
ArticleOrError ==
    pc = "done" =>
        /\ \/ outcome = "returned" /\ error = NoError
           \/ outcome = "raised" /\ result = None /\ error # NoError
        /\ (outcome = "returned" /\ ~return_full_state) =>
              LET log == FinalState.messages
                  v == visits[Len(visits)]
              IN  /\ FinalState = state
                  /\ visits # <<>>
                  /\ v.node = EDIT_NODE
                  /\ v.calls = 0
                  /\ Len(log) = AgentVisits(visits) + SumCalls(visits)
                  /\ LastMessage(FinalState).type = "ai"
                  /\ LastMessage(FinalState).tool_calls = <<>>
                  /\ result = LastMessage(FinalState).content

\* the article returned differs from the summary, the draft and the content
\* of the editor's earlier response that asked for an image, after a failed
\* attempt
ArticleOrErrorWitness ==
    /\ pc = "done"
    /\ outcome = "returned"
    /\ ~return_full_state
    /\ failures = 1
    /\ result = "text"
    /\ FinalState.research_summary = ""
    /\ FinalState.article_draft = ""
    /\ Len(FinalState.messages) >= 5
    /\ FinalState.messages[3].content = ""
    /\ FinalState.messages[3].tool_calls # <<>>

\* C18: a run with image generation disabled in which no response asks for
\* a tool visits research, write, edit and then END; its log holds exactly
\* three messages, all ai; generated_images is absent; edited_article is the
\* content of the editor's response.
SimpleRun ==
    (AtEnd /\ ~enable_image_generation /\ SumCalls(visits) = 0) =>
        /\ NodesOf(visits) = <<RESEARCH_NODE, WRITE_NODE, EDIT_NODE>>
        /\ Len(state.messages) = 3
        /\ Len(AiMessages(state.messages)) = 3
        /\ "generated_images" \notin DOMAIN state
        /\ state.research_summary = state.messages[1].content
        /\ state.article_draft = state.messages[2].content
        /\ state.edited_article = state.messages[3].content

SimpleRunWitness ==
    /\ AtEnd
    /\ ~enable_image_generation
    /\ SumCalls(visits) = 0
    /\ Len(visits) = 3
    /\ state.edited_article = "text"
    /\ state.article_draft = ""

\* C19: while an attempt runs, and in the final state, topic is the trimmed
\* topic handed to main_workflow and word_count the word_count handed to it,
\* whatever the nodes return.
InputsImmutable ==
    /\ pc = "invoke" =>
          /\ state.topic = Strip(topic)
          /\ state.word_count = word_count
    /\ final_state # {} =>
          /\ FinalState.topic = Strip(topic)
          /\ FinalState.word_count = word_count

\* every agent and a tool node have returned their partial states
InputsImmutableWitness ==
    /\ AtEnd
    /\ topic = <<" ", "a", "\t">>
    /\ state.topic = <<"a">>
    /\ state.word_count = 1
    /\ Len(visits) >= 5
    /\ \E i \in 1..Len(visits) : visits[i].node = WEB_SEARCH_NODE

\* C20: generate_article_image never raises: when the image service fails
\* it returns the placeholder url, the prompt and style it was given and an
\* error field; when the service answers it returns the url, the prompt and
\* the style, and no error field.
ImageToolTotal ==
    pc = "image_done" =>
        /\ outcome = "returned"
        /\ error = NoError
        /\ result.prompt = state.prompt
        /\ result.style = state.style
        /\ IF state.upstream.raises
           THEN /\ DOMAIN result = {"url", "prompt", "style", "error"}
                /\ result.url = PlaceholderUrl
                /\ result.error = state.upstream.text
           ELSE /\ DOMAIN result = {"url", "prompt", "style"}
                /\ result.url = state.upstream.url

\* the service raised and the placeholder came back
ImageToolTotalWitness ==
    /\ pc = "image_done"
    /\ state.upstream.raises
    /\ state.style = "cartoon"
    /\ outcome = "returned"
    /\ result.url = PlaceholderUrl
    /\ result.error = "e2"

\* the expected fields of the node that the state does not hold, in list
\* order
AbsentFields(st, node) ==
    SelectSeq(ExpectedList(node), LAMBDA f : f \notin DOMAIN st)

\* C21: for each required field the node uses the value the state holds
\* when the field is present; otherwise the content of the most recent ai
\* message of the log; when there is no ai message it raises an error that
\* names the field, without invoking the model.
FieldResolution ==
    pc = "node_done" =>
        IF AbsentFields(state, current) # <<>>
           /\ AiMessages(state.messages) = <<>>
        THEN /\ outcome = "raised"
             /\ error = [type |-> "ValueError",
                         field |-> Head(AbsentFields(state, current))]
             /\ result = None
             /\ ~capability_used
        ELSE /\ capability_used
             /\ outcome = "returned" =>
                   \A f \in ExpectedFields(current) :
                       IF f \in DOMAIN state
                       THEN result[f] = state[f]
                       ELSE result[f] =
                              AiMessages(state.messages)[
                                  Len(AiMessages(state.messages))].content

\* the writer got its summary from the second of two ai messages
FieldResolutionWitness ==
    /\ pc = "node_done"
    /\ current = WRITE_NODE
    /\ "research_summary" \notin DOMAIN state
    /\ "word_count" \in DOMAIN state
    /\ Len(state.messages) = 2
    /\ state.messages[1].type = "ai"
    /\ state.messages[1].content = "text"
    /\ state.messages[2].type = "ai"
    /\ state.messages[2].content = ""
    /\ outcome = "returned"
    /\ result.research_summary = ""

AgentNodes == {RESEARCH_NODE, WRITE_NODE, EDIT_NODE}

\* C23: a visit of an agent node that returns adds exactly one message to
\* the log, the ai response of the one model invocation, after the
\* messages the log held before, which keep their order; no tool message is
\* added.
OneResponsePerVisit ==
    [][(pc = "invoke" /\ current \in AgentNodes /\ pc' = "invoke") =>
          LET new == state'.messages[Len(state'.messages)]
          IN  /\ Len(state'.messages) = Len(state.messages) + 1
              /\ SubSeq(state'.messages, 1, Len(state.messages))
                    = state.messages
              /\ new.type = "ai"
              /\ \A i \in 1..Len(state.messages) :
                    state.messages[i].id # new.id
              /\ ToolMessages(state'.messages) = ToolMessages(state.messages)
              /\ visits' = Append(visits,
                     [node |-> current, calls |-> Len(new.tool_calls),
                      failed |-> 0])]_vars

\* the editor answered a second time on a log that holds a tool message
OneResponsePerVisitWitness ==
    /\ pc = "invoke"
    /\ Len(visits) >= 5
    /\ visits[Len(visits)].node = EDIT_NODE
    /\ Len(state.messages) = Len(visits)
    /\ Len(AiMessages(state.messages)) = 4
    /\ Len(ToolMessages(state.messages)) = 1
    /\ \A i, j \in 1..Len(state.messages) :
          i # j => state.messages[i].id # state.messages[j].id

\* C24: after a visit of an agent node its output field is the content of
\* the response of that visit, also when that content is the empty string
\* and whatever the field held before.
OutputFieldVerbatim ==
    (pc = "invoke" /\ visits # <<>>
                   /\ visits[Len(visits)].node \in AgentNodes) =>
        state[OutputField(visits[Len(visits)].node)]
            = LastMessage(state).content

\* the researcher's second response was empty and replaced the first
OutputFieldVerbatimWitness ==
    /\ pc = "invoke"
    /\ Len(visits) = 3
    /\ visits[3].node = RESEARCH_NODE
    /\ state.messages[1].content = "text"
    /\ LastMessage(state).content = ""
    /\ state.research_summary = ""

\* the template of the node about to run has a slot the node is not
\* supplied with
UnsuppliedSlot ==
    \E i \in 1..Len(prompt_templates[current]) :
        prompt_templates[current][i]
            \notin {"topic"} \cup ExpectedFields(current)

\* C25: when the prompt template of the agent node about to run refers to a
\* field the node is not supplied with, the visit raises before the model
\* is invoked and adds nothing to the log; the attempt ends as a failed
\* attempt and the driver goes on to the next attempt if one is left.
TemplateErrorAborts ==
    [][(pc = "invoke" /\ current \in AgentNodes
                      /\ WithinRecursionLimit(visits) /\ UnsuppliedSlot) =>
          /\ capability_used' = capability_used
          /\ failures' = failures + 1
          /\ invocations' = invocations
          /\ last_exception' = {[type |-> "KeyError", field |-> "audience"]}
          /\ final_state' = {}
          /\ state' = NoState
          /\ visits' = <<>>
          /\ pc' = IF attempt + 1 < retry_attempts
                   THEN "loop" ELSE "after_loop"]_vars

\* the writer's template could not be formatted in either attempt: the
\* caller gets the attempts-exhausted error
TemplateErrorAbortsWitness ==
    /\ pc = "done"
    /\ Len(prompt_templates[RESEARCH_NODE]) = 1
    /\ Len(prompt_templates[WRITE_NODE]) = 4
    /\ failures = retry_attempts
    /\ invocations = retry_attempts
    /\ last_exception = {[type |-> "KeyError", field |-> "audience"]}
    /\ outcome = "raised"
    /\ error = Wrapped(AttemptsExhausted(retry_attempts, last_exception))

\* C26: whenever web_search or image_generation is the node about to run,
\* the log is not empty and its last message is ai-tagged with at least one
\* pending tool call.
ToolNodeHasCalls ==
    (pc = "invoke" /\ current \in {WEB_SEARCH_NODE, IMAGE_GENERATION_NODE}) =>
        /\ state.messages # <<>>
        /\ LastMessage(state).type = "ai"
        /\ Len(LastMessage(state).tool_calls) >= 1
        /\ Len(PendingCalls(state)) >= 1
        /\ visits # <<>>
        /\ visits[Len(visits)].node
              = IF current = WEB_SEARCH_NODE THEN RESEARCH_NODE ELSE EDIT_NODE

\* image_generation is about to run for the second time
ToolNodeHasCallsWitness ==
    /\ pc = "invoke"
    /\ current = IMAGE_GENERATION_NODE
    /\ Len(visits) = 5
    /\ visits[4].node = IMAGE_GENERATION_NODE
    /\ Len(LastMessage(state).tool_calls) = 2

\* the last message of the log has no tool_calls attribute
LacksShape(log) == "tool_calls" \notin DOMAIN log[Len(log)]

\* C27: on an empty log, or a log whose last message has no tool_calls,
\* route_after_research returns write and route_after_edit returns END:
\* neither returns a tool node and neither raises.
RouterFailSafe ==
    /\ (pc = "routed_research"
          /\ (state.messages = <<>> \/ LacksShape(state.messages))) =>
             current = WRITE_NODE
    /\ (pc = "routed_edit"
          /\ (state.messages = <<>> \/ LacksShape(state.messages))) =>
             current = END

\* route_after_edit was asked on an empty log
RouterFailSafeWitness ==
    /\ pc = "routed_edit"
    /\ state.messages = <<>>
    /\ current = END

\* C28: when the model raises inside an agent node the attempt ends there:
\* no node is left to run, nothing of the attempt is kept, exactly one
\* attempt is counted as failed, and the driver goes to the next iteration
\* of the loop when one is left and out of the loop otherwise.
ModelFailureAborts ==
    [][(failures' # failures
          /\ last_exception' = {[type |-> "ModelError"]}) =>
          /\ pc = "invoke"
          /\ current \in AgentNodes
          /\ failures' = failures + 1
          /\ invocations' = invocations
          /\ attempt' = attempt
          /\ current' = "none"
          /\ visits' = <<>>
          /\ state' = NoState
          /\ final_state' = {}
          /\ outcome' = "running"
          /\ pc' = IF attempt + 1 < retry_attempts
                   THEN "loop" ELSE "after_loop"]_vars

\* the model raised in the first attempt and a second attempt is running
ModelFailureAbortsWitness ==
    /\ pc = "invoke"
    /\ attempt = 1
    /\ failures = 1
    /\ invocations = 2
    /\ last_exception = {[type |-> "ModelError"]}
    /\ Len(visits) >= 1

\* number of visits of node in vs
VisitsOf(vs, node) == Cardinality({i \in 1..Len(vs) : vs[i].node = node})

\* C29: within an attempt the first visit is research; write runs only
\* right after a research visit whose response asked for no tool, and at
\* most once; edit runs only after write, right after write or
\* image_generation; an attempt that reaches END has run write exactly once;
\* one node runs at a time, on a log that holds the merged results of all
\* earlier visits.
CausalOrder ==
    pc = "invoke" =>
        /\ visits # <<>> => visits[1].node = RESEARCH_NODE
        /\ \A i \in 1..Len(visits) :
              /\ visits[i].node = WRITE_NODE =>
                    /\ i > 1
                    /\ visits[i - 1].node = RESEARCH_NODE
                    /\ visits[i - 1].calls = 0
              /\ visits[i].node = EDIT_NODE =>
                    /\ i > 1
                    /\ visits[i - 1].node \in {WRITE_NODE, IMAGE_GENERATION_NODE}
                    /\ \E j \in 1..(i - 1) : visits[j].node = WRITE_NODE
        /\ VisitsOf(visits, WRITE_NODE) <= 1
        /\ current = END => VisitsOf(visits, WRITE_NODE) = 1
        /\ current \in AgentNodes \cup
                       {WEB_SEARCH_NODE, IMAGE_GENERATION_NODE, END}
        /\ Len(state.messages) + Len(PendingCalls(state))
              = AgentVisits(visits) + SumCalls(visits)

\* an attempt with a search loop has reached END
CausalOrderWitness ==
    /\ AtEnd
    /\ VisitsOf(visits, RESEARCH_NODE) = 2
    /\ VisitsOf(visits, WRITE_NODE) = 1
    /\ VisitsOf(visits, EDIT_NODE) = 1
    /\ VisitsOf(visits, WEB_SEARCH_NODE) = 1

NoHumanMessageInLog ==
    /\ \A i \in 1..Len(state.messages) : state.messages[i].type \in {"ai", "tool"}
    /\ initial_state.messages = <<>>
    /\ \A s \in final_state :
          \A i \in 1..Len(s.messages) : s.messages[i].type \in {"ai", "tool"}
    /\ pc = "invoke" =>
          Len(state.messages) =
              AgentVisits(visits) + SumCalls(visits) - Len(PendingCalls(state))

NoHumanMessageInLogWitness ==
    /\ AtEnd
    /\ Len(state.messages) >= 5
    /\ \E i \in 1..Len(state.messages) : state.messages[i].type = "tool"
    /\ \A i \in 1..Len(state.messages) : state.messages[i].type \in {"ai", "tool"}

\* every tool request of the log is answered: an ai message with n pending
\* calls is followed at once by n tool messages, the k-th for its k-th call,
\* and the last message is ai-tagged without a pending call
AllRequestsAnswered(log) ==
    /\ log # <<>>
    /\ log[Len(log)].type = "ai"
    /\ log[Len(log)].tool_calls = <<>>
    /\ \A i \in 1..Len(log) :
          log[i].type = "ai" =>
              \A k \in 1..Len(log[i].tool_calls) :
                  /\ i + k <= Len(log)
                  /\ log[i + k].type = "tool"
                  /\ log[i + k].tool_call_id = log[i].tool_calls[k]
    /\ \A i \in 1..Len(log) :
          log[i].type = "tool" =>
              \E j \in 1..(i - 1) :
                  /\ log[j].type = "ai"
                  /\ i - j <= Len(log[j].tool_calls)

\* C32: in the final state of a successful attempt no tool request is left
\* unanswered: each ai message with pending calls is followed at once by
\* the tool messages for those calls, and the log ends with an ai message
\* that requests no tool.
NoRequestUnansweredAtEnd ==
    /\ AtEnd => AllRequestsAnswered(state.messages)
    /\ \A s \in final_state : AllRequestsAnswered(s.messages)

NoRequestUnansweredAtEndWitness ==
    /\ pc = "done"
    /\ final_state # {}
    /\ \E i \in 1..(Len(FinalState.messages) - 2) :
          /\ FinalState.messages[i].type = "ai"
          /\ Len(FinalState.messages[i].tool_calls) = 2
          /\ FinalState.messages[i + 1].type = "tool"
          /\ FinalState.messages[i + 2].type = "tool"
          /\ FinalState.messages[i + 2].tool_call_id = 2
    /\ LastMessage(FinalState).type = "ai"

\* the position in the log of the response of agent visit i of vs: one
\* message per agent visit up to i and one per tool call answered before it
ResponseIndex(vs, i) ==
    AgentVisits(SubSeq(vs, 1, i)) + SumCalls(SubSeq(vs, 1, i - 1))

\* the last visit of node in vs; 0 when there is none
LastVisitOf(vs, node) ==
    IF \E i \in 1..Len(vs) : vs[i].node = node
    THEN CHOOSE i \in 1..Len(vs) :
            /\ vs[i].node = node
            /\ \A j \in (i + 1)..Len(vs) : vs[j].node # node
    ELSE 0

\* C33: the output field of an agent node is overwritten at every visit of
\* the node, also at a visit whose response only requests a tool: it always
\* equals the content of the node's most recent response.  When the write
\* node begins research_summary is the content of the researcher's last
\* response, which requests no tool, and at END edited_article is the
\* content of the editor's last response.
SlotsFollowLastResponse ==
    pc = "invoke" =>
        /\ \A node \in AgentNodes :
              LastVisitOf(visits, node) # 0 =>
                  state[OutputField(node)] =
                      state.messages[ResponseIndex(visits,
                                         LastVisitOf(visits, node))].content
        /\ (current = WRITE_NODE /\ VisitsOf(visits, WRITE_NODE) = 0) =>
              /\ visits[Len(visits)].node = RESEARCH_NODE
              /\ LastMessage(state).type = "ai"
              /\ LastMessage(state).tool_calls = <<>>
              /\ state.research_summary = LastMessage(state).content
        /\ current = END =>
              /\ visits[Len(visits)].node = EDIT_NODE
              /\ LastMessage(state).tool_calls = <<>>
              /\ state.edited_article = LastMessage(state).content

\* the researcher asked for a search with one content and then answered with
\* another: the writer starts from the second
SlotsFollowLastResponseWitness ==
    /\ pc = "invoke"
    /\ current = WRITE_NODE
    /\ Len(visits) = 3
    /\ visits[1].calls = 1
    /\ state.messages[1].content = "text"
    /\ state.messages[3].content = ""
    /\ state.research_summary = ""

\* C34: the graph is built once per call, before the first attempt, and
\* every attempt runs that same compiled graph; when building fails no
\* attempt is made, nothing is retried and the call ends at once with a
\* RuntimeError that wraps the failure.
BuiltOnceNeverRetried ==
    [][/\ compiled_graph' # compiled_graph =>
              /\ pc = "build"
              /\ compiled_graph = NoGraph
              /\ compiled_graph'.built
              /\ invocations = 0
              /\ attempt = -1
       /\ invocations' # invocations =>
              /\ compiled_graph.built
              /\ compiled_graph' = compiled_graph
       /\ (pc = "build" /\ compiled_graph' = compiled_graph) =>
              /\ pc' = "done"
              /\ outcome' = "raised"
              /\ error'.type = "RuntimeError"
              /\ error'.cause = [type |-> "BuildError"]
              /\ result' = None
              /\ invocations' = 0
              /\ failures' = 0
              /\ attempt' = -1
              /\ ~capability_used']_vars

\* building failed in a call that was allowed two attempts
BuiltOnceNeverRetriedWitness ==
    /\ pc = "done"
    /\ retry_attempts = 2
    /\ ~compiled_graph.built
    /\ outcome = "raised"
    /\ error.type = "RuntimeError"
    /\ error.cause = [type |-> "BuildError"]
    /\ invocations = 0

\* C35: with config.retry_attempts <= 0 the graph is never invoked and no
\* capability is called, nothing is ever returned, and the call ends by
\* raising: after a successful build the error is the wrapped "failed after
\* retry_attempts attempts" with no last exception.
NoAttemptsAlwaysRaises ==
    retry_attempts <= 0 =>
        /\ invocations = 0
        /\ attempt = -1
        /\ failures = 0
        /\ ~capability_used
        /\ visits = <<>>
        /\ pc \notin {"loop", "invoke"}
        /\ final_state = {}
        /\ outcome # "returned"
        /\ result = None
        /\ pc # "done" => ENABLED Next
        /\ pc = "done" =>
              /\ outcome = "raised"
              /\ error.type \in {"ValueError", "RuntimeError"}
              /\ compiled_graph.built =>
                    /\ error.type = "RuntimeError"
                    /\ error.cause =
                          AttemptsExhausted(retry_attempts, {})

\* a call with retry_attempts = -1 and valid inputs built its graph and
\* raised without an attempt
NoAttemptsAlwaysRaisesWitness ==
    /\ retry_attempts = -1
    /\ pc = "done"
    /\ compiled_graph.built
    /\ invocations = 0
    /\ outcome = "raised"
    /\ error = Wrapped(AttemptsExhausted(-1, {}))

\* C36: an error that leaves main_workflow is either the ValueError of the
\* validation, unwrapped and raised before any work for a blank topic or a
\* non-positive word_count, or a RuntimeError that wraps its cause, raised
\* for valid inputs after a failed build, after the attempts are exhausted,
\* or after a run that ended with neither edited_article nor a message;
\* a state with an empty log and an unset edited_article is never returned.
ErrorsAreOfTwoKinds ==
    /\ (pc = "done" /\ outcome = "raised") =>
          /\ result = None
          /\ IF IsBlank(topic) \/ word_count <= 0
             THEN /\ error.type = "ValueError"
                  /\ "cause" \notin DOMAIN error
                  /\ NoWorkDone
             ELSE /\ error.type = "RuntimeError"
                  /\ error.text = "Workflow execution failed"
                  /\ "cause" \in DOMAIN error
                  /\ \/ /\ error.cause = [type |-> "BuildError"]
                        /\ ~compiled_graph.built
                     \/ /\ error.cause =
                              AttemptsExhausted(retry_attempts, last_exception)
                        /\ final_state = {}
                        /\ compiled_graph.built
                     \/ /\ error.cause = NoMessages
                        /\ final_state # {}
                        /\ FinalState.messages = <<>>
    /\ (pc = "done" /\ outcome = "returned") =>
          /\ error = NoError
          /\ final_state # {}
          /\ ~(FinalState.messages = <<>> /\ ~Truthy(Get(FinalState, "edited_article")))
    /\ pc = "done" => outcome \in {"raised", "returned"}

\* a call with a blank topic raised the bare ValueError
ErrorsAreOfTwoKindsWitness ==
    /\ pc = "done"
    /\ outcome = "raised"
    /\ IsBlank(topic)
    /\ error.type = "ValueError"

\* C37: frame of a node visit.  A visit adds and removes no field; an agent
\* node changes only messages and its own output field (research leaves
\* article_draft and edited_article as they were, write leaves
\* research_summary and edited_article, edit leaves research_summary and
\* article_draft), and the web_search and image_generation nodes change
\* nothing but messages.
NodeVisitFrame ==
    [][(pc = "invoke" /\ pc' = "invoke") =>
          /\ DOMAIN state' = DOMAIN state
          /\ state'.topic = state.topic
          /\ state'.word_count = state.word_count
          /\ current = RESEARCH_NODE =>
                /\ state'.article_draft = state.article_draft
                /\ state'.edited_article = state.edited_article
          /\ current = WRITE_NODE =>
                /\ state'.research_summary = state.research_summary
                /\ state'.edited_article = state.edited_article
          /\ current = EDIT_NODE =>
                /\ state'.research_summary = state.research_summary
                /\ state'.article_draft = state.article_draft
          /\ current \in {WEB_SEARCH_NODE, IMAGE_GENERATION_NODE} =>
                /\ state'.research_summary = state.research_summary
                /\ state'.article_draft = state.article_draft
                /\ state'.edited_article = state.edited_article
                /\ Len(state'.messages) > Len(state.messages)]_vars

\* the image_generation node ran after the three agents had written their
\* fields, each with its own content, and left them as they were
NodeVisitFrameWitness ==
    /\ pc = "invoke"
    /\ current = EDIT_NODE
    /\ visits # <<>>
    /\ visits[Len(visits)].node = IMAGE_GENERATION_NODE
    /\ state.research_summary = ""
    /\ state.article_draft = "text"
    /\ state.edited_article = ""

====
